---- MODULE Spec2Model ----
(***************************************************************************)
(* Model of the in-memory keyword index of the ticketing service           *)
(* (app/services/vector_store.py, SimpleVectorStoreService) and of the     *)
(* filter construction of app/services/rag_service.py, and of the ticket   *)
(* service that keeps the index next to the tickets table                  *)
(* (app/services/ticket_service.py, TicketService).                        *)
(*                                                                         *)
(* A Python str is a sequence of one-character strings; None is the        *)
(* distinguished sequence NoneVal.  A score is an exact fraction           *)
(* [num, den] (den > 0); the floats of the source are compared only by     *)
(* order and by the clamp at 1.0, which the fractions reproduce.           *)
(***************************************************************************)
EXTENDS Integers, Sequences, FiniteSets, TLC

(* ------------------------------ bounds --------------------------------- *)
\* ticket ids are 1..MaxId
MaxId == 2
\* requested result limits are 1..MaxLimit
MaxLimit == 2

Ids == 1..MaxId
Limits == 1..MaxLimit

(* ------------------------------ strings -------------------------------- *)
NoneVal == <<"<None>">>

UpperCase == <<"A","B","C","D","E","F","G","H","I","J","K","L","M",
               "N","O","P","Q","R","S","T","U","V","W","X","Y","Z">>
LowerCase == <<"a","b","c","d","e","f","g","h","i","j","k","l","m",
               "n","o","p","q","r","s","t","u","v","w","x","y","z">>

\* the lower-case letter of each upper-case letter
ToLower ==
    [c \in { UpperCase[i] : i \in 1..Len(UpperCase) } |->
        LowerCase[CHOOSE i \in 1..Len(UpperCase) : UpperCase[i] = c]]

\* str.lower() on one character
LowerChar(c) == IF c \in DOMAIN ToLower THEN ToLower[c] ELSE c

\* str.lower()
Lower(s) == [i \in 1..Len(s) |-> LowerChar(s[i])]

\* Python's `sub in s` on strings (the empty string is in every string)
Contains(sub, s) ==
    \E i \in 0..(Len(s) - Len(sub)) :
        \A j \in 1..Len(sub) : s[i + j] = sub[j]

IsSpace(c) == c = " "

\* str.split() without argument: the maximal runs of non-whitespace
RECURSIVE SplitFrom(_, _, _)
SplitFrom(s, i, cur) ==
    IF i > Len(s)
    THEN IF cur = <<>> THEN <<>> ELSE <<cur>>
    ELSE IF IsSpace(s[i])
         THEN IF cur = <<>>
              THEN SplitFrom(s, i + 1, <<>>)
              ELSE <<cur>> \o SplitFrom(s, i + 1, <<>>)
         ELSE SplitFrom(s, i + 1, Append(cur, s[i]))

Split(s) == SplitFrom(s, 1, <<>>)

\* sep.join(parts)
RECURSIVE Join(_, _)
Join(sep, parts) ==
    IF parts = <<>> THEN <<>>
    ELSE IF Len(parts) = 1 THEN parts[1]
    ELSE parts[1] \o sep \o Join(sep, Tail(parts))

\* f"{x}": None formats as the text None
Format(x) == IF x = NoneVal THEN <<"N","o","n","e">> ELSE x

\* truthiness of an Optional[str] / Optional[list]
Truthy(x) == x # NoneVal /\ x # <<>>

(* ------------------------- enumeration values -------------------------- *)
\* TicketStatus
OPEN == <<"o","p","e","n">>
RESOLVED == <<"r","e","s","o","l","v","e","d">>
\* TicketPriority
LOW == <<"l","o","w">>
HIGH == <<"h","i","g","h">>
\* TicketCategory
CAT_OTHER == <<"o","t","h","e","r">>
CAT_NETWORK == <<"n","e","t","w","o","r","k">>

(* ------------------------------ tickets -------------------------------- *)
\* datetime values, and datetime.isoformat() (a datetime and its text differ)
T1 == <<"T1">>
T2 == <<"T2">>
T3 == <<"T3">>
IsoFormat(d) == <<"i","s","o">> \o d

Ticket(title, description, status, priority, category, assignee, reporter, tags, resolution_notes, updated_at) ==
    [id |-> 0, title |-> title, description |-> description,
     status |-> status, priority |-> priority, category |-> category,
     assignee |-> assignee, reporter |-> reporter, tags |-> tags,
     resolution_notes |-> resolution_notes,
     created_at |-> T1, updated_at |-> updated_at]

\* the ticket contents the operations are called with (the id is added below)
TicketBodies ==
    { Ticket(<<"A","b"," ","c">>, <<"d">>, OPEN, HIGH, CAT_OTHER,
             NoneVal, <<"r">>, << <<"e">> >>, NoneVal, NoneVal),
      Ticket(<<"c">>, <<"a","b"," ","c">>, OPEN, LOW, CAT_NETWORK,
             <<"e">>, <<"r">>, <<>>, <<"x">>, T2),
      Ticket(<<"d">>, <<"c">>, RESOLVED, HIGH, CAT_OTHER,
             <<"e">>, <<"u">>, << <<"A">>, <<"b">> >>, NoneVal, T2),
      Ticket(<<"a","b"," ","c"," ","d">>, <<"a","b"," ","c">>, RESOLVED, LOW, CAT_OTHER,
             NoneVal, <<"r">>, NoneVal, NoneVal, NoneVal),
      \* a malformed ticket: a required field is null
      Ticket(NoneVal, <<"d">>, OPEN, HIGH, CAT_OTHER,
             NoneVal, <<"r">>, <<>>, NoneVal, NoneVal) }

Tickets == { [b EXCEPT !.id = i] : i \in Ids, b \in TicketBodies }

(* ----------------------------- documents ------------------------------- *)
L_Title == <<"T","i","t","l","e",":"," ">>
L_Description == <<"D","e","s","c","r","i","p","t","i","o","n",":"," ">>
L_Status == <<"S","t","a","t","u","s",":"," ">>
L_Priority == <<"P","r","i","o","r","i","t","y",":"," ">>
L_Category == <<"C","a","t","e","g","o","r","y",":"," ">>
L_Reporter == <<"R","e","p","o","r","t","e","r",":"," ">>
L_Assignee == <<"A","s","s","i","g","n","e","e",":"," ">>
L_Tags == <<"T","a","g","s",":"," ">>
L_Resolution == <<"R","e","s","o","l","u","t","i","o","n",":"," ">>

\* the operations that raise on None: x.lower(), x.value, x.isoformat(), join
Raises(ticket) ==
    \/ ticket.title = NoneVal
    \/ ticket.description = NoneVal
    \/ ticket.status = NoneVal
    \/ ticket.priority = NoneVal
    \/ ticket.category = NoneVal
    \/ ticket.created_at = NoneVal

\* _create_document_text
create_document_text(ticket) ==
    Join(<<" ","|"," ">>,
         << L_Title \o Format(ticket.title),
            L_Description \o Format(ticket.description),
            L_Status \o ticket.status,
            L_Priority \o ticket.priority,
            L_Category \o ticket.category,
            L_Reporter \o Format(ticket.reporter) >>
         \o (IF Truthy(ticket.assignee)
             THEN << L_Assignee \o ticket.assignee >> ELSE <<>>)
         \o (IF Truthy(ticket.tags)
             THEN << L_Tags \o Join(<<","," ">>, ticket.tags) >> ELSE <<>>)
         \o (IF Truthy(ticket.resolution_notes)
             THEN << L_Resolution \o ticket.resolution_notes >> ELSE <<>>))

\* the dict stored under ticket.id by add_ticket
Document(ticket) ==
    [ticket_id |-> ticket.id,
     document_text |-> Lower(create_document_text(ticket)),
     title |-> Lower(ticket.title),
     description |-> Lower(ticket.description),
     status |-> ticket.status,
     priority |-> ticket.priority,
     category |-> ticket.category,
     assignee |-> IF Truthy(ticket.assignee) THEN ticket.assignee ELSE <<>>,
     reporter |-> ticket.reporter,
     created_at |-> IsoFormat(ticket.created_at),
     updated_at |-> IF ticket.updated_at # NoneVal
                    THEN IsoFormat(ticket.updated_at) ELSE <<>>,
     tags |-> Lower(Join(<<" ">>, IF Truthy(ticket.tags) THEN ticket.tags ELSE <<>>))]

\* the documents of the well-formed tickets, computed once
DocumentOf == [t \in {u \in Tickets : ~Raises(u)} |-> Document(t)]

(* ------------------------- the dict tickets_store ---------------------- *)
\* tickets_store is a dict: a sequence of documents in insertion order, one
\* per key ticket_id
Keys(store) == { store[i].ticket_id : i \in 1..Len(store) }

\* tickets_store[id] (id is a key)
DictGet(store, id) == store[CHOOSE i \in 1..Len(store) : store[i].ticket_id = id]

\* variant: the assignment always inserts a new entry
DictSetAppends(store, id, doc) == Append(store, doc)

\* tickets_store[id] = doc: an existing key keeps its position, a new key is
\* inserted last
DictSet(store, id, doc) ==
    IF id \in Keys(store)
    THEN [i \in 1..Len(store) |->
              IF store[i].ticket_id = id THEN doc ELSE store[i]]
    ELSE Append(store, doc)

\* variant: the oldest entry is deleted, whatever its key
DictDelOldest(store, id) == IF store = <<>> THEN store ELSE Tail(store)

\* del tickets_store[id]
DictDel(store, id) == SelectSeq(store, LAMBDA d : d.ticket_id # id)

(* ------------------------------- scores -------------------------------- *)
Frac(n, d) == [num |-> n, den |-> d]
FracAdd(a, b) == Frac(a.num * b.den + b.num * a.den, a.den * b.den)
FracLess(a, b) == a.num * b.den < b.num * a.den
FracEq(a, b) == a.num * b.den = b.num * a.den
FracLeq(a, b) == ~FracLess(b, a)
FracMin(a, b) == IF FracLess(b, a) THEN b ELSE a
Zero == Frac(0, 1)
One == Frac(1, 1)

(* ------------------------------- filters ------------------------------- *)
\* a filter value: None, a scalar or a list
FNone == [kind |-> "none", v |-> <<>>]
FScalar(x) == [kind |-> "scalar", v |-> x]
FList(xs) == [kind |-> "list", v |-> xs]

\* x in list
InList(x, xs) == \E i \in 1..Len(xs) : xs[i] = x

\* ticket_data.get(key)
DocGet(doc, key) == IF key \in DOMAIN doc THEN doc[key] ELSE NoneVal

\* variant: list-valued filters are not tested
PassesFiltersScalarOnly(filters, doc) ==
    \A key \in DOMAIN filters :
        filters[key].kind = "scalar" => DocGet(doc, key) = filters[key].v

\* variant: a key the document does not have is not tested
PassesFiltersIgnoresUnknown(filters, doc) ==
    \A key \in DOMAIN filters \cap DOMAIN doc :
        LET value == filters[key] IN
        IF value.kind = "none" THEN TRUE
        ELSE IF value.kind = "list"
             THEN InList(doc[key], value.v)
             ELSE doc[key] = value.v

\* the filter loop of search_tickets: FALSE when skip_ticket is set
PassesFilters(filters, doc) ==
    \A key \in DOMAIN filters :
        LET value == filters[key] IN
        IF value.kind = "none" THEN TRUE
        ELSE IF value.kind = "list"
             THEN InList(DocGet(doc, key), value.v)
             ELSE DocGet(doc, key) = value.v

\* TicketSearchRequest: the filter fields (None when not supplied)
SearchRequest(status, priority, category, assignee, reporter) ==
    [status |-> status, priority |-> priority, category |-> category,
     assignee |-> assignee, reporter |-> reporter]

\* the filters dict built by search_tickets_with_context
BuildFilters(req) ==
    [key \in {k \in {"status", "priority", "category", "assignee", "reporter"} :
                 Truthy(req[k])} |->
        IF key \in {"status", "priority", "category"}
        THEN FList(req[key])
        ELSE FScalar(req[key])]

(* --------------------------- inputs of the calls ----------------------- *)
Queries ==
    { <<"a","b">>,
      <<"a","b"," ","c">>,
      <<"A","B"," "," ","c">>,
      <<"x"," ","q">>,
      <<"d"," ","e">>,
      <<" ">>,
      <<"q">> }

NoFilter == <<>>

FilterMaps ==
    { NoFilter,
      BuildFilters(SearchRequest(<<OPEN>>, NoneVal, NoneVal, NoneVal, NoneVal)),
      BuildFilters(SearchRequest(NoneVal, <<HIGH, LOW>>, NoneVal, <<"e">>, NoneVal)),
      BuildFilters(SearchRequest(<<RESOLVED>>, <<LOW>>, <<CAT_OTHER>>, NoneVal, <<"r">>)),
      [k \in {"status", "priority"} |->
           IF k = "status" THEN FNone ELSE FScalar(HIGH)],
      [k \in {"severity"} |-> FScalar(HIGH)],
      [k \in {"severity"} |-> FList(<<HIGH>>)],
      [k \in {"severity"} |-> FList(<<NoneVal>>)] }

\* the query string get_similar_tickets builds from a ticket
SimilarQuery(ticket) ==
    Format(ticket.title) \o <<" ">> \o Format(ticket.description)

\* every document the index can hold and every term a query can contain
Documents == { DocumentOf[t] : t \in DOMAIN DocumentOf }
QueryStrings == Queries \cup { SimilarQuery(t) : t \in Tickets }
Terms ==
    UNION { { Split(Lower(q))[n] : n \in 1..Len(Split(Lower(q))) } : q \in QueryStrings }

(* ------------------------------- scoring ------------------------------- *)
\* variant: a description match weighs as much as a title match
TermWeightFlat(term, doc) ==
    IF Contains(term, doc.title) THEN 3
    ELSE IF Contains(term, doc.description) THEN 3
    ELSE IF Contains(term, doc.tags) THEN 2
    ELSE IF Contains(term, doc.document_text) THEN 1
    ELSE 0

\* variant: a match in the description weighs 1
TermWeightDescriptionLow(term, doc) ==
    IF Contains(term, doc.title) THEN 3
    ELSE IF Contains(term, doc.description) THEN 1
    ELSE IF Contains(term, doc.tags) THEN 2
    ELSE IF Contains(term, doc.document_text) THEN 1
    ELSE 0

\* the weight one query term adds to the score of a document
TermWeight(term, doc) ==
    IF Contains(term, doc.title) THEN 3
    ELSE IF Contains(term, doc.description) THEN 2
    ELSE IF Contains(term, doc.tags) THEN 2
    ELSE IF Contains(term, doc.document_text) THEN 1
    ELSE 0

\* the weights of the terms in the documents, computed once
TermWeightOf == [doc \in Documents |-> [term \in Terms |-> TermWeight(term, doc)]]

\* the weight of a term in a document, from the table when it is there
TermWeightFor(term, doc) ==
    IF doc \in Documents /\ term \in Terms
    THEN TermWeightOf[doc][term]
    ELSE TermWeight(term, doc)

RECURSIVE TermSum(_, _)
TermSum(query_terms, doc) ==
    IF query_terms = <<>> THEN 0
    ELSE TermWeightFor(Head(query_terms), doc) + TermSum(Tail(query_terms), doc)

\* variant: the sum is normalized without the test for zero terms
TermScoreNoGuard(query_terms, doc) ==
    Frac(TermSum(query_terms, doc), Len(query_terms) * 3)

\* the normalized term score
TermScore(query_terms, doc) ==
    LET total_terms == Len(query_terms) IN
    IF total_terms > 0
    THEN Frac(TermSum(query_terms, doc), total_terms * 3)
    ELSE Zero

\* variant: the two phrase tests are independent (if / if)
PhraseBonusStacked(query_lower, doc) ==
    FracAdd(IF Contains(query_lower, doc.title) THEN Frac(5, 10) ELSE Zero,
            IF Contains(query_lower, doc.description) THEN Frac(3, 10) ELSE Zero)

\* the exact phrase bonus
PhraseBonus(query_lower, doc) ==
    IF Contains(query_lower, doc.title) THEN Frac(5, 10)
    ELSE IF Contains(query_lower, doc.description) THEN Frac(3, 10)
    ELSE Zero

\* score of a document before the cap
Score(query_lower, query_terms, doc) ==
    FracAdd(TermScore(query_terms, doc), PhraseBonus(query_lower, doc))

\* variant: the score is not capped
CapMissing(score) == score

\* min(score, 1.0)
Cap(score) == FracMin(score, One)

\* variant: the test is score >= 0
RECURSIVE ScanNonNegative(_, _, _, _)
ScanNonNegative(store, query_lower, query_terms, filters) ==
    IF store = <<>> THEN <<>>
    ELSE LET doc == Head(store)
             rest == ScanNonNegative(Tail(store), query_lower, query_terms, filters)
             score == Score(query_lower, query_terms, doc)
         IN IF ~PassesFilters(filters, doc) THEN rest
            ELSE IF FracLeq(Zero, score)
                 THEN <<[id |-> doc.ticket_id, score |-> Cap(score)]>> \o rest
                 ELSE rest

\* the loop over tickets_store.items(): the results list before sorting
RECURSIVE Scan(_, _, _, _)
Scan(store, query_lower, query_terms, filters) ==
    IF store = <<>> THEN <<>>
    ELSE LET doc == Head(store)
             rest == Scan(Tail(store), query_lower, query_terms, filters)
             score == Score(query_lower, query_terms, doc)
         IN IF ~PassesFilters(filters, doc) THEN rest
            ELSE IF FracLess(Zero, score)
                 THEN <<[id |-> doc.ticket_id, score |-> Cap(score)]>> \o rest
                 ELSE rest

\* variant: the results are not sorted
SortByScoreMissing(results) == results

\* variant: equal scores are ordered by ascending id
RECURSIVE SortByScoreTiesById(_)
SortByScoreTiesById(results) ==
    IF results = <<>> THEN <<>>
    ELSE LET n == Len(results)
             x == results[n]
             sorted == SortByScoreTiesById(SubSeq(results, 1, n - 1))
             k == Cardinality({i \in 1..(n - 1) :
                                  \/ FracLess(x.score, sorted[i].score)
                                  \/ FracEq(x.score, sorted[i].score) /\ sorted[i].id < x.id})
         IN SubSeq(sorted, 1, k) \o <<x>> \o SubSeq(sorted, k + 1, n - 1)

\* list.sort(key=score, reverse=True): stable, equal scores keep their order
RECURSIVE SortByScore(_)
SortByScore(results) ==
    IF results = <<>> THEN <<>>
    ELSE LET n == Len(results)
             x == results[n]
             sorted == SortByScore(SubSeq(results, 1, n - 1))
             k == Cardinality({i \in 1..(n - 1) : ~FracLess(sorted[i].score, x.score)})
         IN SubSeq(sorted, 1, k) \o <<x>> \o SubSeq(sorted, k + 1, n - 1)

\* variant: the results are not truncated
SliceMissing(results, limit) == results

\* results[:limit]
Slice(results, limit) ==
    IF limit >= 0
    THEN SubSeq(results, 1, IF limit < Len(results) THEN limit ELSE Len(results))
    ELSE SubSeq(results, 1, IF Len(results) + limit > 0 THEN Len(results) + limit ELSE 0)

\* search_tickets on an initialized store
search_tickets(store, query, limit, filters) ==
    LET query_lower == Lower(query)
        query_terms == Split(query_lower)
    IN Slice(SortByScore(Scan(store, query_lower, query_terms, filters)), limit)

\* variant: the ranking is requested with limit results, not limit + 1
get_similar_tickets_short(store, ticket, limit) ==
    LET search_query == SimilarQuery(ticket)
        results == search_tickets(store, search_query, limit, <<>>)
        filtered_results == SelectSeq(results, LAMBDA r : r.id # ticket.id)
    IN Slice(filtered_results, limit)

\* variant: the reference ticket is not filtered out
get_similar_tickets_keeps_self(store, ticket, limit) ==
    LET search_query == SimilarQuery(ticket)
    IN Slice(search_tickets(store, search_query, limit + 1, <<>>), limit)

\* get_similar_tickets on an initialized store
get_similar_tickets(store, ticket, limit) ==
    LET search_query == SimilarQuery(ticket)
        results == search_tickets(store, search_query, limit + 1, <<>>)
        filtered_results == SelectSeq(results, LAMBDA r : r.id # ticket.id)
    IN Slice(filtered_results, limit)

(* -------------------------------- state -------------------------------- *)
VARIABLES
    tickets_store,   \* SimpleVectorStoreService.tickets_store
    initialized,     \* SimpleVectorStoreService._initialized
    op,              \* the call being answered and its arguments, or idle
    ret,             \* what that call returns
    removed,         \* ids removed and not passed to add/update since
    written,         \* per indexed id, the ticket of its last successful add/update
    repo,            \* the rows of the tickets table, by id
    call,            \* the ticket-service call in progress, or idle
    faults,          \* index operations that ended in their except branch
    tasks,           \* the coroutines of the event loop, each at its position
    running          \* the coroutine that holds the event loop, or none

\* the state of the ticket service
svars == <<repo, call, faults>>

\* the state of the event loop
tvars == <<tasks, running>>

vars == <<tickets_store, initialized, op, ret, removed, written, repo, call, faults, tasks, running>>

Init ==
    /\ tickets_store = <<>>
    /\ initialized = FALSE
    /\ op = [name |-> "idle"]
    /\ ret = NoneVal
    /\ removed = {}
    /\ written = {}
    /\ repo = <<>>
    /\ call = [pc |-> "idle"]
    /\ faults = 0
    /\ tasks = [t \in {"reader", "writer", "update", "delete"} |-> [pc |-> "idle"]]
    /\ running = "none"

\* calls are served one at a time
Idle == op.name = "idle"

\* variant: initialize assigns a fresh mapping on every call
AfterInitializeFresh == <<>>

\* the mapping after `await self.initialize()`
AfterInitialize == IF initialized THEN tickets_store ELSE <<>>

\* initialize()
Initialize ==
    /\ Idle
    /\ tickets_store' = AfterInitialize
    /\ initialized' = TRUE
    /\ op' = [name |-> "initialize", before |-> tickets_store, fresh |-> ~initialized]
    /\ ret' = NoneVal
    /\ UNCHANGED <<removed, written>>
    /\ UNCHANGED svars
    /\ UNCHANGED tvars

\* the document of a ticket, from the table when the ticket is in it
DocumentFor(ticket) ==
    IF ticket \in DOMAIN DocumentOf THEN DocumentOf[ticket] ELSE Document(ticket)

\* variant: a slot the new ticket leaves empty keeps its earlier value
AddResultMerges(store, ticket) ==
    IF Raises(ticket) THEN store
    ELSE IF ticket.id \in Keys(store) /\ DocumentOf[ticket].assignee = <<>>
         THEN DictSet(store, ticket.id,
                      [DocumentOf[ticket] EXCEPT !.assignee = DictGet(store, ticket.id).assignee])
         ELSE DictSet(store, ticket.id, DocumentOf[ticket])

\* variant: a failed write drops the document the id had
AddResultDropsOnFailure(store, ticket) ==
    IF Raises(ticket) THEN DictDel(store, ticket.id)
    ELSE DictSet(store, ticket.id, DocumentFor(ticket))

\* the mapping add_ticket leaves: unchanged when building the document raises
AddResult(store, ticket) ==
    IF Raises(ticket) THEN store
    ELSE DictSet(store, ticket.id, DocumentFor(ticket))

\* variant: the failure to build the document is not reported
AddReturnAlwaysTrue(ticket) == TRUE

\* what add_ticket returns: True, or False from the except branch
AddReturn(ticket) == ~Raises(ticket)

\* the tickets of the last successful writes once add_ticket(ticket) returned
Written(ticket) ==
    IF Raises(ticket) THEN written
    ELSE { t \in written : t.id # ticket.id } \cup {ticket}

\* add_ticket(ticket)
AddTicket(ticket) ==
    /\ Idle
    /\ tickets_store' = AddResult(AfterInitialize, ticket)
    /\ initialized' = TRUE
    /\ op' = [name |-> "add", ticket |-> ticket, before |-> tickets_store]
    /\ ret' = AddReturn(ticket)
    /\ removed' = removed \ {ticket.id}
    /\ written' = Written(ticket)
    /\ UNCHANGED svars
    /\ UNCHANGED tvars

\* variant: update_ticket only rewrites a document that is already indexed
UpdateResultIndexedOnly(store, ticket) ==
    IF ticket.id \in Keys(store) THEN AddResult(store, ticket) ELSE store

\* the mapping update_ticket leaves: `return await self.add_ticket(ticket)`
UpdateResult(store, ticket) == AddResult(store, ticket)

\* update_ticket(ticket): initialize, then add_ticket
UpdateTicket(ticket) ==
    /\ Idle
    /\ tickets_store' = UpdateResult(AfterInitialize, ticket)
    /\ initialized' = TRUE
    /\ op' = [name |-> "update", ticket |-> ticket, before |-> tickets_store]
    /\ ret' = AddReturn(ticket)
    /\ removed' = removed \ {ticket.id}
    /\ written' = Written(ticket)
    /\ UNCHANGED svars
    /\ UNCHANGED tvars

\* variant: the document is not deleted
RemoveResultKeeps(store, ticket_id) == store

\* variant: every document is deleted
RemoveResultClears(store, ticket_id) == <<>>

\* the mapping remove_ticket leaves
RemoveResult(store, ticket_id) ==
    IF ticket_id \in Keys(store) THEN DictDel(store, ticket_id) ELSE store

\* remove_ticket(ticket_id)
RemoveTicket(ticket_id) ==
    /\ Idle
    /\ tickets_store' = RemoveResult(AfterInitialize, ticket_id)
    /\ initialized' = TRUE
    /\ op' = [name |-> "remove", ticket_id |-> ticket_id, before |-> tickets_store]
    /\ ret' = TRUE
    /\ removed' = removed \cup {ticket_id}
    /\ written' = { t \in written : t.id # ticket_id }
    /\ UNCHANGED svars
    /\ UNCHANGED tvars

\* search_tickets(query, limit, filters)
SearchTickets(query, limit, filters) ==
    /\ Idle
    /\ tickets_store' = AfterInitialize
    /\ initialized' = TRUE
    /\ op' = [name |-> "search", query |-> query, limit |-> limit, filters |-> filters]
    /\ ret' = search_tickets(AfterInitialize, query, limit, filters)
    /\ UNCHANGED <<removed, written>>
    /\ UNCHANGED svars
    /\ UNCHANGED tvars

\* get_similar_tickets(ticket, limit)
GetSimilarTickets(ticket, limit) ==
    /\ Idle
    /\ tickets_store' = AfterInitialize
    /\ initialized' = TRUE
    /\ op' = [name |-> "similar", ticket |-> ticket, limit |-> limit]
    /\ ret' = get_similar_tickets(AfterInitialize, ticket, limit)
    /\ UNCHANGED <<removed, written>>
    /\ UNCHANGED svars
    /\ UNCHANGED tvars

\* get_collection_stats()
GetCollectionStats ==
    /\ Idle
    /\ tickets_store' = AfterInitialize
    /\ initialized' = TRUE
    /\ op' = [name |-> "stats"]
    /\ ret' = [total_documents |-> Len(AfterInitialize)]
    /\ UNCHANGED <<removed, written>>
    /\ UNCHANGED svars
    /\ UNCHANGED tvars

\* variant: the documents are kept
ResetResultKeeps(store) == store

\* the mapping reset_collection leaves: `self.tickets_store = {}`
ResetResult(store) == <<>>

\* reset_collection(): does not call initialize
ResetCollection ==
    /\ Idle
    /\ tickets_store' = ResetResult(tickets_store)
    /\ op' = [name |-> "reset", before |-> tickets_store]
    /\ ret' = TRUE
    /\ written' = {}
    /\ UNCHANGED <<initialized, removed>>
    /\ UNCHANGED svars
    /\ UNCHANGED tvars

\* the caller takes the returned value; the service awaits the next call
Return ==
    /\ ~Idle
    /\ op' = [name |-> "idle"]
    /\ ret' = NoneVal
    /\ UNCHANGED <<tickets_store, initialized, removed, written>>
    /\ UNCHANGED svars
    /\ UNCHANGED tvars

Next ==
    \/ Initialize
    \/ \E ticket \in Tickets : AddTicket(ticket)
    \/ \E ticket \in Tickets : UpdateTicket(ticket)
    \/ \E ticket_id \in Ids : RemoveTicket(ticket_id)
    \/ \E query \in Queries, limit \in Limits, filters \in FilterMaps :
           SearchTickets(query, limit, filters)
    \/ \E ticket \in Tickets, limit \in Limits : GetSimilarTickets(ticket, limit)
    \/ GetCollectionStats
    \/ ResetCollection
    \/ Return

Spec == Init /\ [][Next]_vars

(* ========================== the ticket service ========================== *)
\* index operations of the service that may end in their except branch
MaxFaults == 1

\* TicketStatus.CLOSED
CLOSED == <<"c","l","o","s","e","d">>

\* json.dumps of a list, and json.loads of that text
JsonDumps(list) == <<"[", list, "]">>
JsonLoads(text) == text[2]

\* TicketCreate contents
TicketCreate(title, description, priority, category, assignee, reporter, tags) ==
    [title |-> title, description |-> description, priority |-> priority,
     category |-> category, assignee |-> assignee, reporter |-> reporter,
     tags |-> tags]

TicketCreates ==
    { TicketCreate(<<"a","b"," ","c">>, <<"d">>, HIGH, CAT_OTHER, NoneVal, <<"r">>, << <<"e">> >>) }

\* TicketUpdate.dict(exclude_unset=True): the fields the request sets; a
\* field set to null stays in the dict
TicketUpdates ==
    { [status |-> RESOLVED],
      [status |-> NoneVal] }

\* requests that resolve, close and reopen a ticket
StatusUpdates ==
    { [status |-> RESOLVED],
      [status |-> CLOSED],
      [status |-> OPEN] }

\* the values datetime.utcnow() takes at the updates
UpdateTimes == {T2, T3}

\* the id SQLite gives the next row of the tickets table
NextId(rows) ==
    IF DOMAIN rows = {} THEN 1
    ELSE (CHOOSE i \in DOMAIN rows : \A j \in DOMAIN rows : j <= i) + 1

\* the row create_ticket inserts, with the column defaults, after refresh
NewRow(id, ticket_data) ==
    [id |-> id,
     title |-> ticket_data.title,
     description |-> ticket_data.description,
     status |-> OPEN,
     priority |-> ticket_data.priority,
     category |-> ticket_data.category,
     assignee |-> ticket_data.assignee,
     reporter |-> ticket_data.reporter,
     created_at |-> T1,
     updated_at |-> NoneVal,
     resolved_at |-> NoneVal,
     tags |-> JsonDumps(IF Truthy(ticket_data.tags) THEN ticket_data.tags ELSE <<>>),
     resolution_notes |-> NoneVal]

\* update_ticket: setattr for every field of the request
SetFields(row, update_data) ==
    [f \in DOMAIN row |->
        IF f \in DOMAIN update_data
        THEN IF f = "tags" /\ update_data[f] # NoneVal
             THEN JsonDumps(update_data[f])
             ELSE update_data[f]
        ELSE row[f]]

\* variant: every update to resolved or closed stamps resolved_at again
UpdatedRowRestamps(row, update_data, now) ==
    LET set == SetFields(row, update_data)
        status == IF "status" \in DOMAIN update_data THEN update_data.status ELSE NoneVal
        resolved == IF status \in {RESOLVED, CLOSED}
                    THEN [set EXCEPT !.resolved_at = now]
                    ELSE set
    IN IF resolved = row THEN row ELSE [resolved EXCEPT !.updated_at = now]

\* update_ticket: the row as committed and refreshed, utcnow() being now
UpdatedRow(row, update_data, now) ==
    LET set == SetFields(row, update_data)
        status == IF "status" \in DOMAIN update_data THEN update_data.status ELSE NoneVal
        resolved == IF status \in {RESOLVED, CLOSED} /\ set.resolved_at = NoneVal
                    THEN [set EXCEPT !.resolved_at = now]
                    ELSE set
    IN IF resolved = row THEN row ELSE [resolved EXCEPT !.updated_at = now]

\* the Ticket model rejects a null in a required field
ValidationError(row) ==
    \/ row.title = NoneVal
    \/ row.description = NoneVal
    \/ row.status = NoneVal
    \/ row.priority = NoneVal
    \/ row.category = NoneVal
    \/ row.reporter = NoneVal
    \/ row.created_at = NoneVal

\* _orm_to_pydantic
orm_to_pydantic(db_ticket) ==
    [db_ticket EXCEPT !.tags = IF Truthy(db_ticket.tags)
                               THEN JsonLoads(db_ticket.tags)
                               ELSE <<>>]

\* the table with a row inserted or replaced, and with a row deleted
Put(rows, row) ==
    [i \in DOMAIN rows \cup {row.id} |-> IF i = row.id THEN row ELSE rows[i]]
Delete(rows, id) == [i \in DOMAIN rows \ {id} |-> rows[i]]

\* TicketSearchRequest contents
ServiceRequest(query, limit, use_semantic_search, status) ==
    [query |-> query, limit |-> limit, use_semantic_search |-> use_semantic_search,
     status |-> status, priority |-> NoneVal, category |-> NoneVal,
     assignee |-> NoneVal, reporter |-> NoneVal]

\* (a status filter that is not given is the empty list here: None and []
\* are both falsy where the filters are built)
ServiceRequests ==
    { ServiceRequest(<<"a","b"," ","c">>, limit, TRUE, <<>>) : limit \in Limits }
    \cup { ServiceRequest(<<"a","b"," ","c">>, 1, FALSE, <<>>),
           ServiceRequest(<<"d">>, MaxLimit, TRUE, <<OPEN>>) }

\* rag_service.search_tickets_with_context: the ranked ids
RankedIds(store, request) ==
    IF request.use_semantic_search
    THEN LET ticket_results == search_tickets(store, request.query, request.limit,
                                              BuildFilters(request))
         IN [k \in 1..Len(ticket_results) |-> ticket_results[k].id]
    ELSE <<>>

\* variant: the tickets come back in the order of the table
ResolveInTableOrder(rows, ticket_ids) ==
    LET RECURSIVE Asc(_)
        Asc(i) == IF i > MaxId + 1 THEN <<>>
                  ELSE IF i \in DOMAIN rows /\ \E k \in 1..Len(ticket_ids) : ticket_ids[k] = i
                       THEN <<orm_to_pydantic(rows[i])>> \o Asc(i + 1)
                       ELSE Asc(i + 1)
    IN Asc(1)

\* search_tickets: [ticket_map[tid] for tid in ticket_ids if tid in ticket_map]
Resolve(rows, ticket_ids) ==
    LET found == SelectSeq(ticket_ids, LAMBDA tid : tid \in DOMAIN rows)
    IN [k \in 1..Len(found) |-> orm_to_pydantic(rows[found[k]])]

\* variant: a failed commit is not noticed
AfterCommitIgnoresFailure(commit_ok, row) == "index"

\* where the call continues after db.commit(): the exception propagates, or
\* the refreshed row is converted and the index is called
AfterCommit(commit_ok, row) ==
    IF ~commit_ok THEN "raised"
    ELSE IF ValidationError(row) THEN "raised"
    ELSE "index"

\* what a call hands to its caller: a returned value, or nothing
Returns(value) == [tag |-> "return", value |-> value]
NoResult == [tag |-> "none", value |-> NoneVal]

\* variant: a failed index operation is reported to the caller
ServiceResultChecksIndex(index_ok, value) ==
    IF index_ok THEN Returns(value) ELSE [tag |-> "raise", value |-> NoneVal]

\* what the call returns after the index operation, whose result is dropped
ServiceResult(index_ok, value) == Returns(value)

\* a call as it starts
Call(name, pc, id, ticket, committed, result) ==
    [name |-> name, pc |-> pc, id |-> id, ticket |-> ticket,
     committed |-> committed, invoked |-> FALSE, index_ok |-> TRUE,
     result |-> result, store_before |-> tickets_store, repo_before |-> repo]

\* variant: delete_ticket removes the id from the index though no row was found
NotFoundRemovesFromIndex(name, ticket_id) ==
    IF name = "delete"
    THEN Call(name, "index", ticket_id, NoneVal, FALSE, NoResult)
    ELSE Call(name, "done", ticket_id, NoneVal, FALSE, Returns(NoneVal))

\* `if not db_ticket: return None` of update_ticket, `return False` of
\* delete_ticket: the call is over before any write
NotFound(name, ticket_id) ==
    Call(name, "done", ticket_id, NoneVal, FALSE,
         Returns(IF name = "update" THEN NoneVal ELSE FALSE))

\* the call of update_ticket with its request and the time of the update
WithUpdate(c, update_data, now) ==
    [f \in DOMAIN c \cup {"update_data", "now"} |->
        IF f = "update_data" THEN update_data
        ELSE IF f = "now" THEN now
        ELSE c[f]]

ServiceIdle == call.pc = "idle"

\* create_ticket, up to the call of the index
ServiceCreateTicket(ticket_data, commit_ok) ==
    /\ ServiceIdle
    /\ NextId(repo) <= MaxId
    /\ LET db_ticket == NewRow(NextId(repo), ticket_data)
           pc == AfterCommit(commit_ok, db_ticket)
       IN /\ repo' = IF commit_ok THEN Put(repo, db_ticket) ELSE repo
          /\ call' = Call("create", pc, db_ticket.id,
                          IF pc = "index" THEN orm_to_pydantic(db_ticket) ELSE NoneVal,
                          commit_ok, NoResult)
    /\ tickets_store' = AfterInitialize
    /\ initialized' = TRUE
    /\ UNCHANGED <<op, ret, removed, written, faults>>
    /\ UNCHANGED tvars

\* update_ticket, up to the call of the index
ServiceUpdateTicket(ticket_id, update_data, commit_ok, now) ==
    /\ ServiceIdle
    /\ IF ticket_id \notin DOMAIN repo
       THEN /\ call' = WithUpdate(NotFound("update", ticket_id), update_data, now)
            /\ UNCHANGED repo
       ELSE LET db_ticket == UpdatedRow(repo[ticket_id], update_data, now)
                pc == AfterCommit(commit_ok, db_ticket)
            IN /\ repo' = IF commit_ok THEN Put(repo, db_ticket) ELSE repo
               /\ call' = WithUpdate(Call("update", pc, ticket_id,
                                          IF pc = "index" THEN orm_to_pydantic(db_ticket)
                                          ELSE NoneVal,
                                          commit_ok, NoResult),
                                     update_data, now)
    /\ tickets_store' = AfterInitialize
    /\ initialized' = TRUE
    /\ UNCHANGED <<op, ret, removed, written, faults>>
    /\ UNCHANGED tvars

\* delete_ticket, up to the call of the index
ServiceDeleteTicket(ticket_id, commit_ok) ==
    /\ ServiceIdle
    /\ IF ticket_id \notin DOMAIN repo
       THEN /\ call' = NotFound("delete", ticket_id)
            /\ UNCHANGED repo
       ELSE /\ repo' = IF commit_ok THEN Delete(repo, ticket_id) ELSE repo
            /\ call' = Call("delete", IF commit_ok THEN "index" ELSE "raised",
                            ticket_id, NoneVal, commit_ok, NoResult)
    /\ tickets_store' = AfterInitialize
    /\ initialized' = TRUE
    /\ UNCHANGED <<op, ret, removed, written, faults>>
    /\ UNCHANGED tvars

\* the call of vector_store.add_ticket / update_ticket / remove_ticket and
\* the return of the service call; ok is false when the index operation ends
\* in its except branch
ServiceIndexCall(ok) ==
    /\ call.pc = "index"
    /\ ~ok => faults < MaxFaults
    /\ LET after == IF call.name = "create" THEN AddResult(AfterInitialize, call.ticket)
                    ELSE IF call.name = "update" THEN UpdateResult(AfterInitialize, call.ticket)
                    ELSE RemoveResult(AfterInitialize, call.id)
           index_ok == IF call.name = "delete" THEN ok ELSE ok /\ AddReturn(call.ticket)
           value == IF call.name = "delete" THEN TRUE ELSE call.ticket
       IN /\ tickets_store' = IF ok THEN after ELSE AfterInitialize
          /\ call' = [call EXCEPT !.pc = "done", !.invoked = TRUE,
                                  !.index_ok = index_ok,
                                  !.result = ServiceResult(index_ok, value)]
    /\ faults' = IF ok THEN faults ELSE faults + 1
    /\ initialized' = TRUE
    /\ UNCHANGED <<op, ret, removed, written, repo>>
    /\ UNCHANGED tvars

\* search_tickets of the service
ServiceSearchTickets(request) ==
    /\ ServiceIdle
    /\ LET ticket_ids == RankedIds(AfterInitialize, request)
           raises == \E k \in 1..Len(ticket_ids) :
                         /\ ticket_ids[k] \in DOMAIN repo
                         /\ ValidationError(repo[ticket_ids[k]])
           tickets == IF raises THEN <<>> ELSE Resolve(repo, ticket_ids)
       IN call' = [name |-> "search", pc |-> IF raises THEN "raised" ELSE "done",
                   request |-> request, ticket_ids |-> ticket_ids,
                   result |-> IF raises THEN NoResult
                              ELSE Returns([tickets |-> tickets,
                                            total_count |-> Len(tickets)]),
                   store_before |-> tickets_store, repo_before |-> repo]
    /\ tickets_store' = AfterInitialize
    /\ initialized' = TRUE
    /\ UNCHANGED <<op, ret, removed, written, repo, faults>>
    /\ UNCHANGED tvars

\* the call returns or raises to its caller; the service awaits the next call
ServiceReturn ==
    /\ call.pc \in {"done", "raised"}
    /\ call' = [pc |-> "idle"]
    /\ UNCHANGED <<tickets_store, initialized, op, ret, removed, written, repo, faults>>
    /\ UNCHANGED tvars

ServiceNext ==
    \/ \E ticket_data \in TicketCreates, commit_ok \in BOOLEAN :
           ServiceCreateTicket(ticket_data, commit_ok)
    \/ \E ticket_id \in Ids, update_data \in TicketUpdates, commit_ok \in BOOLEAN :
           ServiceUpdateTicket(ticket_id, update_data, commit_ok, T2)
    \/ \E ticket_id \in Ids, commit_ok \in BOOLEAN : ServiceDeleteTicket(ticket_id, commit_ok)
    \/ \E ok \in BOOLEAN : ServiceIndexCall(ok)
    \/ \E request \in ServiceRequests : ServiceSearchTickets(request)
    \/ ServiceReturn

ServiceSpec == Init /\ [][ServiceNext]_vars

(* ======================= properties of the index ======================= *)
IsSearch == op.name = "search"
IsSimilar == op.name = "similar"

\* the lower-cased form and the whitespace-separated terms of each query
LowerOf == [query \in QueryStrings |-> Lower(query)]
TermsOf == [query \in QueryStrings |-> Split(Lower(query))]
QueryLower == LowerOf[op.query]
QueryTerms == TermsOf[op.query]

\* sub occurs in s as a contiguous substring
Occurs(sub, s) ==
    \E i \in 1..(Len(s) - Len(sub) + 1) :
        \A j \in 1..Len(sub) : s[i + j - 1] = sub[j]

\* the ids of a result list
ResultIds(results) == { results[i].id : i \in 1..Len(results) }

\* the positions in the index of the documents that pass the filters
Passing == { i \in 1..Len(tickets_store) : PassesFilters(op.filters, tickets_store[i]) }

\* the combined score (term score plus phrase bonus) of every document
Combined == [i \in 1..Len(tickets_store) |-> Score(QueryLower, QueryTerms, tickets_store[i])]

\* the full ranked candidate list of the call, before truncation
Ranked == SortByScore(Scan(tickets_store, QueryLower, QueryTerms, op.filters))

\* the position in the index of the document of a returned id
PositionOf(id) == CHOOSE i \in 1..Len(tickets_store) : tickets_store[i].ticket_id = id

\* C1: every (id, score) pair returned by search_tickets has 0 < score <= 1,
\* and the document of a returned id has a combined score other than 0.
C1_BoundedScore ==
    IsSearch =>
        LET combined == Combined IN
        \A k \in 1..Len(ret) :
            /\ ret[k].score.den > 0
            /\ 0 < ret[k].score.num
            /\ ret[k].score.num <= ret[k].score.den
            /\ ret[k].id \in Keys(tickets_store)
            /\ combined[PositionOf(ret[k].id)].num # 0

\* C1 happens: a document scoring above 1.0 is returned with score 1.0 while
\* a document that passes the filters and scores 0 is left out.
C1_Witness ==
    /\ IsSearch
    /\ LET combined == Combined
           passing == Passing
       IN /\ \E k \in 1..Len(ret) :
                 /\ FracLess(One, combined[PositionOf(ret[k].id)])
                 /\ FracEq(ret[k].score, One)
          /\ \E i \in passing :
                 /\ combined[i].num = 0
                 /\ tickets_store[i].ticket_id \notin ResultIds(ret)

\* C2: the list returned by search_tickets is non-increasing in score.
C2_RankOrder ==
    IsSearch =>
        \A k \in 1..(Len(ret) - 1) :
            ret[k + 1].score.num * ret[k].score.den
                <= ret[k].score.num * ret[k + 1].score.den

\* C2 happens: two documents are returned in the opposite of their order in
\* the index, the later one scoring strictly higher.
C2_Witness ==
    /\ IsSearch
    /\ Len(ret) >= 2
    /\ FracLess(ret[2].score, ret[1].score)
    /\ PositionOf(ret[2].id) < PositionOf(ret[1].id)

\* C3: search_tickets returns at most limit entries (limit >= 1), and they
\* are the first entries of the full ranked candidate list: no candidate left
\* out scores higher than one returned.
C3_LimitRespected ==
    IsSearch =>
        LET ranked == Ranked IN
        /\ Len(ret) <= op.limit
        /\ Len(ret) <= Len(ranked)
        /\ \A k \in 1..Len(ret) : ret[k] = ranked[k]
        /\ Len(ranked) >= op.limit => Len(ret) = op.limit
        /\ Len(ranked) < op.limit => Len(ret) = Len(ranked)
        /\ \A k \in 1..Len(ret) : \A j \in (Len(ret) + 1)..Len(ranked) :
               FracLeq(ranked[j].score, ret[k].score)

\* C3 happens: there are more candidates than the limit allows.
C3_Witness ==
    /\ IsSearch
    /\ Len(Ranked) > op.limit
    /\ Len(ret) = op.limit

\* the attributes of a document satisfy every supplied filter whose expected
\* value is not absent: equality for a scalar, membership for a list; an
\* attribute the document does not have reads as None
Satisfies(doc) ==
    \A key \in DOMAIN op.filters :
        LET expected == op.filters[key]
            actual == IF key \in DOMAIN doc THEN doc[key] ELSE NoneVal
        IN expected.kind # "none" =>
               /\ expected.kind = "scalar" => actual = expected.v
               /\ expected.kind = "list" =>
                      \E n \in 1..Len(expected.v) : expected.v[n] = actual

AttributesSatisfyFilters ==
    \A k \in 1..Len(ret) :
        /\ ret[k].id \in Keys(tickets_store)
        /\ Satisfies(DictGet(tickets_store, ret[k].id))

\* C4 as stated: every returned id satisfies every supplied filter, and the
\* ids returned with the filter are among the ids returned by the same query
\* with the same limit and no filter.
C4_SubsetAtSameLimit ==
    IsSearch =>
        /\ AttributesSatisfyFilters
        /\ ResultIds(ret) \subseteq
               ResultIds(search_tickets(tickets_store, op.query, op.limit, NoFilter))

\* C4 amended: every returned id satisfies every supplied filter; the ids
\* returned with the filter are among the ids returned by the same query with
\* no filter and a limit that does not truncate (the number of indexed
\* documents); and with the same limit the filtered result is never longer
\* than the unfiltered one.
C4_FilterConjunction ==
    IsSearch =>
        /\ AttributesSatisfyFilters
        /\ ResultIds(ret) \subseteq
               ResultIds(search_tickets(tickets_store, op.query,
                                        Len(tickets_store), NoFilter))
        /\ Len(ret) <= Len(search_tickets(tickets_store, op.query, op.limit, NoFilter))

\* C4 happens: a filter with a scalar and a list value keeps one document and
\* drops another that the unfiltered query returns.
C4_Witness ==
    /\ IsSearch
    /\ \E key \in DOMAIN op.filters : op.filters[key].kind = "scalar"
    /\ \E key \in DOMAIN op.filters : op.filters[key].kind = "list"
    /\ Len(ret) >= 1
    /\ \E i \in 1..Len(tickets_store) :
           /\ ~Satisfies(tickets_store[i])
           /\ tickets_store[i].ticket_id \in
                  ResultIds(search_tickets(tickets_store, op.query, op.limit, NoFilter))

\* the weight of a term: 3 in the title, otherwise 2 in the description,
\* otherwise 2 in the tags slot, otherwise 1 in the full text, otherwise 0
Weight(term, doc) ==
    IF Occurs(term, doc.title) THEN 3
    ELSE IF Occurs(term, doc.description) \/ Occurs(term, doc.tags) THEN 2
    ELSE IF Occurs(term, doc.document_text) THEN 1
    ELSE 0

\* the weight of every term in every document
WeightOf == [doc \in Documents |-> [term \in Terms |-> Weight(term, doc)]]

\* the sum of the weights of the terms, one weight per term
WeightSum(terms, doc) ==
    LET w == [n \in 1..Len(terms) |-> WeightOf[doc][terms[n]]] IN
    3 * Cardinality({n \in 1..Len(terms) : w[n] = 3})
    + 2 * Cardinality({n \in 1..Len(terms) : w[n] = 2})
    + Cardinality({n \in 1..Len(terms) : w[n] = 1})

\* C5: for a query with n >= 1 terms the term score of a document is
\* (sum over the terms of w(term)) / (3n), one weight per term, the first
\* matching field in the order title, description, tags, full text deciding.
C5_TermScore ==
    IsSearch =>
        LET terms == QueryTerms IN
        Len(terms) >= 1 =>
            \A i \in 1..Len(tickets_store) :
                LET score == TermScore(terms, tickets_store[i]) IN
                score.num * (3 * Len(terms)) = WeightSum(terms, tickets_store[i]) * score.den

\* C5 happens: two terms, one in the title and one in the description only,
\* and the document is returned with score 5/6.
C5_Witness ==
    /\ IsSearch
    /\ Len(QueryTerms) = 2
    /\ \E k \in 1..Len(ret) :
           LET doc == DictGet(tickets_store, ret[k].id) IN
           /\ Occurs(QueryTerms[1], doc.description)
           /\ ~Occurs(QueryTerms[1], doc.title)
           /\ Occurs(QueryTerms[2], doc.title)
           /\ FracEq(ret[k].score, Frac(5, 6))

\* the phrase bonus in tenths: 5 for the title, otherwise 3 for the
\* description, otherwise 0
BonusTenths(phrase, doc) ==
    IF Occurs(phrase, doc.title) THEN 5
    ELSE IF Occurs(phrase, doc.description) THEN 3
    ELSE 0

\* C6: the combined score exceeds the normalized term score by at most one
\* phrase bonus: 0.5 when the lower-cased query string is a substring of the
\* title, otherwise 0.3 when it is a substring of the description, otherwise 0.
C6_PhraseBonus ==
    IsSearch =>
        LET terms == QueryTerms
            phrase == QueryLower
        IN \A i \in 1..Len(tickets_store) :
               LET doc == tickets_store[i] IN
               FracEq(Score(phrase, terms, doc),
                      FracAdd(TermScore(terms, doc), Frac(BonusTenths(phrase, doc), 10)))

\* C6 happens: title and description both contain the phrase and the
\* document is returned with the title bonus alone, 0.5.
C6_Witness ==
    /\ IsSearch
    /\ \E k \in 1..Len(ret) :
           LET doc == DictGet(tickets_store, ret[k].id) IN
           /\ Occurs(QueryLower, doc.title)
           /\ Occurs(QueryLower, doc.description)
           /\ FracEq(ret[k].score, Frac(1, 2))

\* the terms that occur in some field of each document
TermsIn ==
    [doc \in Documents |->
        { term \in Terms : \/ Occurs(term, doc.title)
                           \/ Occurs(term, doc.description)
                           \/ Occurs(term, doc.tags)
                           \/ Occurs(term, doc.document_text) }]

\* some term, or the whole phrase, occurs in the document
Matches(phrase, terms, doc) ==
    \/ \E n \in 1..Len(terms) : terms[n] \in TermsIn[doc]
    \/ Occurs(phrase, doc.title)
    \/ Occurs(phrase, doc.description)

\* the positions in the index of the documents matched by the query
Matched ==
    LET terms == QueryTerms
        phrase == QueryLower
    IN { i \in 1..Len(tickets_store) : Matches(phrase, terms, tickets_store[i]) }

\* C7: the candidates are exactly the documents that pass the filters with
\* a combined score strictly greater than 0: only such documents are
\* returned, all of them when they number at most limit, and a query with no
\* term and no phrase occurring in any document returns the empty list.
C7_Candidates ==
    IsSearch =>
        LET combined == Combined
            matched == Matched
            cands == { i \in Passing : FracLess(Zero, combined[i]) }
            candIds == { tickets_store[i].ticket_id : i \in cands }
        IN /\ ResultIds(ret) \subseteq candIds
           /\ Cardinality(cands) <= op.limit => ResultIds(ret) = candIds
           /\ \A i \in 1..Len(tickets_store) : FracLess(Zero, combined[i]) <=> i \in matched
           /\ matched = {} => ret = <<>>

\* C7 happens: the candidates number at most limit, one document is a
\* candidate and is returned, and another passes the filters with score 0 and
\* is left out.
C7_Witness ==
    /\ IsSearch
    /\ Len(ret) = 1
    /\ op.limit >= 2
    /\ LET matched == Matched IN
       /\ \E i \in Passing : i \in matched /\ tickets_store[i].ticket_id = ret[1].id
       /\ \E i \in Passing : i \notin matched /\ tickets_store[i].ticket_id # ret[1].id

\* C8: once remove_ticket(id) has completed, id appears in the result of no
\* search_tickets or get_similar_tickets call until add_ticket or
\* update_ticket is called with a ticket of that id (removed holds exactly
\* the ids in that interval), whatever happens to other ids meanwhile.
C8_RemoveIsFinal ==
    (IsSearch \/ IsSimilar) => ResultIds(ret) \cap removed = {}

\* C8 happens: an id has been removed and a query returns the document of
\* another id.
C8_Witness ==
    /\ IsSearch \/ IsSimilar
    /\ removed # {}
    /\ Len(ret) >= 1
    /\ \E id \in removed : \E k \in 1..Len(ret) : ret[k].id > id

\* C9: update_ticket is idempotent on the index: once update_ticket(t) has
\* been called, calling it again with the same ticket leaves the index as it
\* is: the document of t.id, every other document and the document count.
C9_IdempotentUpdate ==
    op.name = "update" =>
        LET once == tickets_store
            twice == AddResult(AfterInitialize, op.ticket)
        IN /\ twice = once
           /\ Len(twice) = Len(once)
           /\ Keys(twice) = Keys(once)
           /\ \A id \in Keys(once) : DictGet(twice, id) = DictGet(once, id)

\* C9 happens: an update has replaced the document of an id that was already
\* indexed together with another id (it is not the last entry, where a new
\* id would have been inserted).
C9_Witness ==
    /\ op.name = "update"
    /\ ret = TRUE
    /\ Len(tickets_store) >= 2
    /\ tickets_store[1].ticket_id = op.ticket.id
    /\ tickets_store[1] = DocumentOf[op.ticket]

\* C10: get_similar_tickets(ticket, limit) never contains ticket.id, whether
\* or not the ticket is indexed.
C10_SelfExclusion ==
    IsSimilar => op.ticket.id \notin ResultIds(ret)

\* C10 happens: the reference ticket is indexed, the underlying ranking of
\* its own text returns it, and other documents remain in the result.
C10_Witness ==
    /\ IsSimilar
    /\ op.ticket.id \in Keys(tickets_store)
    /\ Len(ret) >= 1
    /\ op.ticket.id \in
           ResultIds(search_tickets(tickets_store,
                                    SimilarQuery(op.ticket),
                                    op.limit + 1, NoFilter))

\* the unfiltered ranking of the reference ticket's "<title> <description>",
\* before truncation
SimilarRanked ==
    LET q == SimilarQuery(op.ticket)
    IN SortByScore(Scan(tickets_store, LowerOf[q], TermsOf[q], NoFilter))

\* the first n entries of a list
FirstN(list, n) == [k \in 1..(IF n < Len(list) THEN n ELSE Len(list)) |-> list[k]]

\* the entries of a list whose id is not the given one, in order
Others(list, id) == SelectSeq(list, LAMBDA r : r.id # id)

\* C11: get_similar_tickets(ticket, limit) is the unfiltered ranking of
\* "<title> <description>" requested with limit + 1, without the entry of
\* ticket.id, truncated to limit; it has at most limit entries in
\* non-increasing score order, and exactly limit entries when at least limit
\* other documents are candidates.
C11_SimilarIsRanking ==
    IsSimilar =>
        LET ranked == SimilarRanked
            others == Others(ranked, op.ticket.id)
        IN /\ ret = FirstN(Others(FirstN(ranked, op.limit + 1), op.ticket.id), op.limit)
           /\ Len(ret) <= op.limit
           /\ \A k \in 1..(Len(ret) - 1) : FracLeq(ret[k + 1].score, ret[k].score)
           /\ Len(others) >= op.limit => Len(ret) = op.limit

\* C11 happens: the reference ticket is indexed and ranks among the first
\* limit entries of its own ranking, at least limit other documents are
\* candidates, and the result holds limit of them.
C11_Witness ==
    /\ IsSimilar
    /\ op.ticket.id \in ResultIds(FirstN(SimilarRanked, op.limit))
    /\ Len(Others(SimilarRanked, op.ticket.id)) >= op.limit
    /\ Len(ret) = op.limit

IsWrite == op.name \in {"add", "update"}

\* the fields add_ticket dereferences without a guard
RequiredFields == {"title", "description", "status", "priority", "category", "created_at"}

\* the document of the ticket can be built
Buildable(ticket) == \A f \in RequiredFields : ticket[f] # NoneVal

\* C12: add_ticket and update_ticket always return a boolean to the caller:
\* true when the document can be built (it is then stored), false when a
\* required field is null (the index is then left as it was).
C12_FailureAbsorbed ==
    IsWrite =>
        /\ ret \in BOOLEAN
        /\ ret = TRUE <=> Buildable(op.ticket)
        /\ ret = TRUE => op.ticket.id \in Keys(tickets_store)
        /\ ret = FALSE => tickets_store = op.before

\* C12 happens: an update with a null title returns false while the earlier
\* document of that id stays indexed.
C12_Witness ==
    /\ op.name = "update"
    /\ op.ticket.title = NoneVal
    /\ ret = FALSE
    /\ op.ticket.id \in Keys(tickets_store)

\* C13: remove_ticket(id) returns true; when the id is not indexed the index
\* is unchanged, and when it is indexed exactly its document is deleted and
\* the other documents and their order are unchanged.
C13_RemoveFrame ==
    op.name = "remove" =>
        LET id == op.ticket_id IN
        /\ ret = TRUE
        /\ id \notin Keys(op.before) => tickets_store = op.before
        /\ id \in Keys(op.before) =>
               /\ Keys(tickets_store) = Keys(op.before) \ {id}
               /\ Len(tickets_store) = Len(op.before) - 1
               /\ \A other \in Keys(tickets_store) :
                      DictGet(tickets_store, other) = DictGet(op.before, other)
               /\ tickets_store = SelectSeq(op.before, LAMBDA d : d.ticket_id # id)

\* C13 happens: an indexed id is removed while another document stays.
C13_Witness ==
    /\ op.name = "remove"
    /\ op.ticket_id \in Keys(op.before)
    /\ Len(op.before) = 2
    /\ Len(tickets_store) = 1
    /\ ret = TRUE

\* C14: update_ticket(t) returns what add_ticket(t) returns and leaves the
\* index add_ticket(t) leaves; update of an id not indexed inserts it, add of
\* an id already indexed overwrites its document in place.
C14_UpdateIsAdd ==
    /\ op.name = "update" =>
           /\ ret = AddReturn(op.ticket)
           /\ tickets_store = AddResult(op.before, op.ticket)
           /\ (ret = TRUE /\ op.ticket.id \notin Keys(op.before)) =>
                  /\ Len(tickets_store) = Len(op.before) + 1
                  /\ DictGet(tickets_store, op.ticket.id) = DocumentOf[op.ticket]
    /\ (op.name = "add" /\ ret = TRUE /\ op.ticket.id \in Keys(op.before)) =>
           /\ Len(tickets_store) = Len(op.before)
           /\ DictGet(tickets_store, op.ticket.id) = DocumentOf[op.ticket]

\* C14 happens: an update inserts an id that was not indexed, next to a
\* document that was.
C14_Witness ==
    /\ op.name = "update"
    /\ ret = TRUE
    /\ op.ticket.id \notin Keys(op.before)
    /\ Len(op.before) = 1
    /\ Len(tickets_store) = 2

\* the ticket of the last successful add_ticket/update_ticket of an indexed id
LastWritten(id) == CHOOSE t \in written : t.id = id

\* C15: the document stored for an id is the document of the ticket passed
\* to the last successful add_ticket/update_ticket for that id, slot by slot;
\* nothing of an earlier version of the ticket survives.
C15_DocumentOfLastWrite ==
    \A id \in Keys(tickets_store) :
        /\ Cardinality({ t \in written : t.id = id }) = 1
        /\ LET t == LastWritten(id)
               doc == DictGet(tickets_store, id)
           IN /\ doc = DocumentOf[t]
              /\ doc.status = t.status
              /\ doc.priority = t.priority
              /\ doc.category = t.category
              /\ doc.reporter = t.reporter
              /\ doc.assignee = (IF t.assignee = NoneVal THEN <<>> ELSE t.assignee)
              /\ doc.ticket_id = id

\* C15 happens: a ticket without assignee overwrites a document that had
\* one, and the stored document has none.
C15_Witness ==
    /\ IsWrite
    /\ ret = TRUE
    /\ op.ticket.id \in Keys(op.before)
    /\ DictGet(op.before, op.ticket.id).assignee # <<>>
    /\ op.ticket.assignee = NoneVal
    /\ DictGet(tickets_store, op.ticket.id).assignee = <<>>
    /\ LastWritten(op.ticket.id) = op.ticket

\* the ids with a successful add/update not followed by their remove or a reset
LiveIds == { t.id : t \in written }

\* C20: get_collection_stats reports as total_documents the number of ids
\* with a successful add/update not followed by a remove of the id or a
\* reset; right after reset_collection that number is 0 and every query
\* returns the empty list.
C20_StatsCount ==
    /\ Keys(tickets_store) = LiveIds
    /\ Len(tickets_store) = Cardinality(LiveIds)
    /\ op.name = "stats" => ret.total_documents = Cardinality(LiveIds)
    /\ op.name = "reset" =>
           /\ ret = TRUE
           /\ LiveIds = {}
           /\ Len(AfterInitialize) = 0
           /\ \A query \in Queries, limit \in Limits, filters \in FilterMaps :
                  search_tickets(AfterInitialize, query, limit, filters) = <<>>
           /\ \A ticket \in Tickets, limit \in Limits :
                  get_similar_tickets(AfterInitialize, ticket, limit) = <<>>
    /\ ((IsSearch \/ IsSimilar) /\ LiveIds = {}) => ret = <<>>

\* C20 happens: reset_collection empties an index that held two documents.
C20_Witness ==
    /\ op.name = "reset"
    /\ Len(op.before) = 2
    /\ tickets_store = <<>>
    /\ written = {}

\* C20 happens as well for the count: one of two indexed ids was removed and
\* get_collection_stats reports 1.
C20_CountAfterRemove ==
    /\ op.name = "stats"
    /\ ret.total_documents = 1
    /\ removed # {}
    /\ Cardinality(LiveIds) = 1

(* =================== properties of the ticket service =================== *)
\* a create, update or delete call of the service is in progress or ending
IsWriteCall == call.pc # "idle" /\ call.name \in {"create", "update", "delete"}

\* no call is between its commit and its index operation
Completed == call.pc \in {"idle", "done", "raised"}

\* C16: once the create_ticket, update_ticket and delete_ticket calls made so
\* far are completed, and no index operation has failed, the index holds
\* exactly one document per id of the tickets table and none for another id.
C16_IndexMatchesRepository ==
    (Completed /\ faults = 0) =>
        /\ Keys(tickets_store) = DOMAIN repo
        /\ Len(tickets_store) = Cardinality(DOMAIN repo)

\* C16 happens: of two tickets created and indexed the first was deleted;
\* the index holds the document of the second only.
C16_Witness ==
    /\ call.pc = "done"
    /\ call.name = "delete"
    /\ call.invoked
    /\ faults = 0
    /\ DOMAIN repo = {2}
    /\ Keys(tickets_store) = {2}

\* C17: the index operation of create_ticket, update_ticket and delete_ticket
\* is invoked only after the commit of the same ticket succeeded, with the
\* index untouched until then; a call whose commit fails leaves the index as
\* it was and never invokes the index.
C17_IndexAfterCommit ==
    IsWriteCall =>
        /\ call.invoked => call.committed
        /\ call.pc = "index" =>
               /\ call.committed
               /\ tickets_store = call.store_before
               /\ IF call.name = "delete"
                  THEN call.id \notin DOMAIN repo
                  ELSE /\ call.id \in DOMAIN repo
                       /\ call.ticket = orm_to_pydantic(repo[call.id])
        /\ ~call.committed =>
               /\ ~call.invoked
               /\ tickets_store = call.store_before
               /\ repo = call.repo_before

\* C17 happens: the commit of an update of an indexed ticket failed, and the
\* index still holds the document it held.
C17_Witness ==
    /\ IsWriteCall
    /\ call.name = "update"
    /\ call.pc = "raised"
    /\ ~call.committed
    /\ call.id \in DOMAIN repo
    /\ call.id \in Keys(tickets_store)
    /\ tickets_store = call.store_before

\* C18: when the index operation reports failure the call still returns:
\* create_ticket and update_ticket return the ticket as persisted,
\* delete_ticket returns true, and the committed change stays in the table.
C18_IndexFailureIgnored ==
    (IsWriteCall /\ call.pc = "done" /\ call.invoked /\ ~call.index_ok) =>
        /\ call.result.tag = "return"
        /\ IF call.name = "delete"
           THEN /\ call.result.value = TRUE
                /\ call.id \in DOMAIN call.repo_before
                /\ call.id \notin DOMAIN repo
           ELSE /\ call.id \in DOMAIN repo
                /\ call.result.value = orm_to_pydantic(repo[call.id])
                /\ call.name = "create" => call.id \notin DOMAIN call.repo_before

\* C18 happens: create_ticket returned the new ticket although its document
\* could not be added; the row is in the table and the index has no
\* document for it.
C18_Witness ==
    /\ IsWriteCall
    /\ call.name = "create"
    /\ call.pc = "done"
    /\ ~call.index_ok
    /\ call.result = Returns(orm_to_pydantic(repo[call.id]))
    /\ call.id \notin Keys(tickets_store)

IsServiceSearch == call.pc = "done" /\ call.name = "search"

\* the ids the index ranks for the request of the call
IndexRanking ==
    IF call.request.use_semantic_search
    THEN LET q == call.request.query
             ranked == SortByScore(Scan(tickets_store, Lower(q), Split(Lower(q)),
                                        BuildFilters(call.request)))
         IN [k \in 1..Len(FirstN(ranked, call.request.limit)) |-> ranked[k].id]
    ELSE <<>>

\* C19: search_tickets of the service returns the tickets of exactly the
\* ranked ids that are in the tickets table, as persisted, in the order of
\* the ranking; total_count is the length of that list and is at most the
\* limit of the request.
C19_SearchResolvesRanking ==
    IsServiceSearch =>
        LET tickets == call.result.value.tickets
            found == SelectSeq(IndexRanking, LAMBDA tid : tid \in DOMAIN repo)
        IN /\ call.result.tag = "return"
           /\ call.ticket_ids = IndexRanking
           /\ Len(tickets) = Len(found)
           /\ \A k \in 1..Len(found) :
                  /\ tickets[k].id = found[k]
                  /\ tickets[k] = orm_to_pydantic(repo[found[k]])
           /\ call.result.value.total_count = Len(tickets)
           /\ call.result.value.total_count <= call.request.limit

\* C19 happens: the index ranks two ids, the first of which is no longer in
\* the tickets table (its document could not be removed); the ticket of the
\* second is returned alone.
C19_Witness ==
    /\ IsServiceSearch
    /\ Len(call.ticket_ids) = 2
    /\ call.ticket_ids[1] \notin DOMAIN repo
    /\ call.result.value.total_count = 1
    /\ call.result.value.tickets[1].id = call.ticket_ids[2]

\* C19 happens as well with a ranking that is not in the order of the ids:
\* both tickets are returned, the higher id first.
C19_RankOrderKept ==
    /\ IsServiceSearch
    /\ call.ticket_ids = <<2, 1>>
    /\ call.result.value.total_count = 2
    /\ call.result.value.tickets[1].id = 2

(* ================== further properties of the index ==================== *)
\* the keys of the dict add_ticket stores
DocumentAttributes ==
    {"ticket_id", "document_text", "title", "description", "status", "priority",
     "category", "assignee", "reporter", "created_at", "updated_at", "tags"}

\* the keys of the filters of the call that no document has and whose value
\* is not None
UnknownFilterKeys ==
    { key \in DOMAIN op.filters :
        key \notin DocumentAttributes /\ op.filters[key].kind # "none" }

\* C21 as stated: a filter on a name no document has, with a value other
\* than None, makes search_tickets return the empty list.
C21_UnknownAttributeExcludesAll ==
    (IsSearch /\ UnknownFilterKeys # {}) => ret = <<>>

\* C21: a filter on a name no document has, whose value is a scalar other
\* than None or a list that does not contain None, makes search_tickets
\* return the empty list (and not fail), whatever the query.
C21_UnknownAttributeWithoutNone ==
    (IsSearch /\ \E key \in UnknownFilterKeys :
                    op.filters[key].kind = "list" => ~InList(NoneVal, op.filters[key].v))
        => ret = <<>>

\* C21 happens: documents that the query alone would return are all excluded
\* by a list filter on a name no document has.
C21_Witness ==
    /\ IsSearch
    /\ \E key \in UnknownFilterKeys :
           op.filters[key].kind = "list" /\ ~InList(NoneVal, op.filters[key].v)
    /\ search_tickets(tickets_store, op.query, op.limit, NoFilter) # <<>>
    /\ ret = <<>>

\* C22: for a query with no term the score of a document is exactly its
\* phrase bonus (0.5 for the lower-cased query string in the title, otherwise
\* 0.3 for the description, otherwise 0): the call returns, by rank and up
\* to limit, the filter-passing documents whose bonus is not 0 with that
\* bonus as score.
C22_ZeroTerms ==
    (IsSearch /\ QueryTerms = <<>>) =>
        LET phrase == QueryLower
            ranked == Ranked
        IN /\ ret = FirstN(ranked, op.limit)
           /\ \A i \in 1..Len(tickets_store) :
                  LET doc == tickets_store[i]
                      bonus == BonusTenths(phrase, doc)
                      entries == { k \in 1..Len(ranked) : ranked[k].id = doc.ticket_id }
                  IN /\ TermScore(QueryTerms, doc).num = 0
                     /\ FracEq(Score(phrase, QueryTerms, doc), Frac(bonus, 10))
                     /\ IF i \in Passing /\ bonus > 0
                        THEN /\ Cardinality(entries) = 1
                             /\ \A k \in entries : FracEq(ranked[k].score, Frac(bonus, 10))
                        ELSE entries = {}

\* C22 happens: a query of one space returns a document with the space in
\* its title at 0.5 and one with the space in its description only at 0.3.
C22_Witness ==
    /\ IsSearch
    /\ QueryTerms = <<>>
    /\ Len(ret) = 2
    /\ FracEq(ret[1].score, Frac(5, 10))
    /\ FracEq(ret[2].score, Frac(3, 10))

\* the ids of a store in the iteration order of the mapping
KeyOrder(store) == [i \in 1..Len(store) |-> store[i].ticket_id]

\* C24: results of equal score come in the iteration order of the mapping,
\* which is the order of first insertion since the last removal or reset
\* (a successful write appends a new id and keeps the place of an indexed
\* one, a removal keeps the order of the others, a reset empties it); the
\* answer is the function of the index and the arguments, and the order of
\* a tie need not be ascending id.
C24_TiesInInsertionOrder ==
    /\ IsSearch =>
           /\ ret = search_tickets(tickets_store, op.query, op.limit, op.filters)
           /\ \A i \in 1..Len(ret) : \A j \in 1..Len(ret) :
                  (i < j /\ FracEq(ret[i].score, ret[j].score)) =>
                      PositionOf(ret[i].id) < PositionOf(ret[j].id)
    /\ (IsWrite /\ ret = TRUE) =>
           KeyOrder(tickets_store) =
               IF op.ticket.id \in Keys(op.before)
               THEN KeyOrder(op.before)
               ELSE Append(KeyOrder(op.before), op.ticket.id)
    /\ op.name = "remove" =>
           KeyOrder(tickets_store) = SelectSeq(KeyOrder(op.before), LAMBDA id : id # op.ticket_id)
    /\ op.name = "reset" => KeyOrder(tickets_store) = <<>>

\* C24 happens: two documents of equal score are returned with the larger
\* id first, because it was inserted first.
C24_Witness ==
    /\ IsSearch
    /\ Len(ret) = 2
    /\ FracEq(ret[1].score, ret[2].score)
    /\ ret[1].id > ret[2].id
    /\ PositionOf(ret[1].id) < PositionOf(ret[2].id)

\* C25: initialize() never discards indexed documents: a store that is not
\* yet initialized holds no document, every call of initialize leaves the
\* mapping as it was, and only a call on a store not yet initialized (hence
\* still empty) assigns a fresh mapping; the initialize at the head of a
\* write leaves the documents of the other ids in place.
C25_InitializeKeeps ==
    /\ ~initialized => tickets_store = <<>>
    /\ op.name = "initialize" =>
           /\ initialized
           /\ tickets_store = op.before
           /\ op.fresh => op.before = <<>>
    /\ (IsWrite /\ ret = TRUE) =>
           \A id \in Keys(op.before) \ {op.ticket.id} :
               DictGet(tickets_store, id) = DictGet(op.before, id)

\* C25 happens: initialize is called on a store that holds two documents,
\* and they stay.
C25_Witness ==
    /\ op.name = "initialize"
    /\ ~op.fresh
    /\ Len(op.before) = 2
    /\ tickets_store = op.before

\* C26: an add_ticket/update_ticket that returns false leaves the index
\* exactly as it was (no partial document, the earlier document of the id
\* kept); a successful write stores the document of its ticket, and from the
\* state a failed write leaves, the next successful add or update of the
\* same id stores the document of the ticket it is given.
C26_FailedWriteLeavesIndex ==
    /\ (IsWrite /\ ret = FALSE) =>
           /\ tickets_store = op.before
           /\ \A i \in 1..Len(tickets_store) :
                  tickets_store[i] \in { DocumentOf[t] : t \in written }
           /\ \A ticket \in Tickets :
                  (ticket.id = op.ticket.id /\ AddReturn(ticket)) =>
                      /\ DictGet(AddResult(tickets_store, ticket), ticket.id) = DocumentOf[ticket]
                      /\ UpdateResult(tickets_store, ticket) = AddResult(tickets_store, ticket)
    /\ (IsWrite /\ ret = TRUE) =>
           DictGet(tickets_store, op.ticket.id) = DocumentOf[op.ticket]

\* C26 happens: an add_ticket fails for an id that has a document, next to
\* the document of another id, and both documents stay.
C26_Witness ==
    /\ op.name = "add"
    /\ ret = FALSE
    /\ Len(op.before) = 2
    /\ op.ticket.id \in Keys(op.before)
    /\ tickets_store = op.before

SuspendsInScan(pc) == pc \in {"initialized", "index", "scan"}

\* the positions where a coroutine may hand the event loop to another one:
\* its await expressions. A coroutine of the index has one, the
\* `await self.initialize()` at its head, and none inside the scan or
\* between building a document and assigning it; a call of the ticket
\* service awaits the index after its persistence call.
Suspends(pc) == pc \in {"initialized", "index"}

\* a coroutine runs when no other one holds the event loop
CanRun(t) == running \in {"none", t}

\* who holds the event loop once coroutine t is at pc
Holder(t, pc) == IF pc \in {"idle", "returned"} \/ Suspends(pc) THEN "none" ELSE t

\* the queries and writes submitted to the event loop
LoopQueries == { <<"a","b"," ","c">>, <<"d"," ","e">> }
LoopTickets == { t \in Tickets : t.status = OPEN }

\* a request arrives: search_tickets(query, limit, filters) is scheduled
SubmitSearch(query, limit, filters) ==
    /\ tasks["reader"].pc = "idle"
    /\ tasks' = [tasks EXCEPT !["reader"] =
                     [pc |-> "ready", query |-> query, limit |-> limit, filters |-> filters]]
    /\ UNCHANGED <<tickets_store, initialized, op, ret, removed, written, running>>
    /\ UNCHANGED svars

\* a request arrives: add_ticket / update_ticket(ticket) is scheduled
SubmitWrite(ticket) ==
    /\ tasks["writer"].pc = "idle"
    /\ tasks' = [tasks EXCEPT !["writer"] = [pc |-> "ready", name |-> "add", ticket |-> ticket]]
    /\ UNCHANGED <<tickets_store, initialized, op, ret, removed, written, running>>
    /\ UNCHANGED svars

\* a request arrives: remove_ticket(ticket_id) is scheduled
SubmitRemove(ticket_id) ==
    /\ tasks["writer"].pc = "idle"
    /\ tasks' = [tasks EXCEPT !["writer"] =
                     [pc |-> "ready", name |-> "remove", ticket_id |-> ticket_id]]
    /\ UNCHANGED <<tickets_store, initialized, op, ret, removed, written, running>>
    /\ UNCHANGED svars

\* a scheduled coroutine starts and runs its `await self.initialize()`
Begin(t) ==
    /\ tasks[t].pc = "ready"
    /\ CanRun(t)
    /\ tickets_store' = AfterInitialize
    /\ initialized' = TRUE
    /\ tasks' = [tasks EXCEPT ![t].pc = "initialized"]
    /\ running' = Holder(t, "initialized")
    /\ UNCHANGED <<op, ret, removed, written>>
    /\ UNCHANGED svars

\* search_tickets: the query is split and the loop over items() begins
ScanBegin ==
    LET r == tasks["reader"] IN
    /\ r.pc = "initialized"
    /\ CanRun("reader")
    /\ tasks' = [tasks EXCEPT !["reader"] =
                     [pc |-> "scan", query |-> r.query, limit |-> r.limit,
                      filters |-> r.filters, cursor |-> 1, results |-> <<>>,
                      seen |-> <<>>, snapshot |-> tickets_store, raised |-> FALSE]]
    /\ running' = Holder("reader", "scan")
    /\ UNCHANGED <<tickets_store, initialized, op, ret, removed, written>>
    /\ UNCHANGED svars

\* search_tickets: one turn of the loop, or its end with sort and slice; a
\* mapping whose size changed under the iteration raises, and the except
\* branch returns the empty list
ScanStep ==
    LET r == tasks["reader"]
        query_lower == Lower(r.query)
        query_terms == Split(query_lower)
    IN /\ r.pc = "scan"
       /\ CanRun("reader")
       /\ LET next ==
                 IF Len(tickets_store) # Len(r.snapshot)
                 THEN [r EXCEPT !.pc = "done", !.raised = TRUE, !.results = <<>>]
                 ELSE IF r.cursor <= Len(tickets_store)
                 THEN LET doc == tickets_store[r.cursor] IN
                      [r EXCEPT !.cursor = r.cursor + 1,
                                !.seen = Append(r.seen, doc),
                                !.results = r.results \o
                                    Scan(<<doc>>, query_lower, query_terms, r.filters)]
                 ELSE [r EXCEPT !.pc = "done",
                                !.results = Slice(SortByScore(r.results), r.limit)]
          IN /\ tasks' = [tasks EXCEPT !["reader"] = next]
             /\ running' = Holder("reader", next.pc)
       /\ UNCHANGED <<tickets_store, initialized, op, ret, removed, written>>
       /\ UNCHANGED svars

\* add_ticket / update_ticket: the document is built and assigned, or the
\* except branch is taken; remove_ticket: the id is deleted if present
Write ==
    LET w == tasks["writer"] IN
    /\ w.pc = "initialized"
    /\ CanRun("writer")
    /\ IF w.name = "add"
       THEN /\ tickets_store' = AddResult(tickets_store, w.ticket)
            /\ written' = Written(w.ticket)
       ELSE /\ tickets_store' = RemoveResult(tickets_store, w.ticket_id)
            /\ written' = { t \in written : t.id # w.ticket_id }
    /\ tasks' = [tasks EXCEPT !["writer"].pc = "done"]
    /\ running' = Holder("writer", "done")
    /\ UNCHANGED <<initialized, op, ret, removed>>
    /\ UNCHANGED svars

\* a coroutine returns to its caller
Finish(t) ==
    /\ tasks[t].pc = "done"
    /\ CanRun(t)
    /\ tasks' = [tasks EXCEPT ![t] = [pc |-> "idle"]]
    /\ running' = "none"
    /\ UNCHANGED <<tickets_store, initialized, op, ret, removed, written>>
    /\ UNCHANGED svars

LoopNext ==
    \/ \E query \in LoopQueries, filters \in {NoFilter} : SubmitSearch(query, MaxLimit, filters)
    \/ \E ticket \in LoopTickets : SubmitWrite(ticket)
    \/ \E ticket_id \in Ids : SubmitRemove(ticket_id)
    \/ \E t \in {"reader", "writer"} : Begin(t)
    \/ ScanBegin
    \/ ScanStep
    \/ Write
    \/ \E t \in {"reader", "writer"} : Finish(t)

LoopSpec == Init /\ [][LoopNext]_vars

(* ====================== the life of a ticket's status ===================== *)
\* the tickets whose status is followed
MaxTickets == 1

\* tickets are created, then resolved, closed and reopened at several times;
\* every commit and every index operation succeeds
LifecycleNext ==
    \/ \E ticket_data \in TicketCreates :
           /\ NextId(repo) <= MaxTickets
           /\ ServiceCreateTicket(ticket_data, TRUE)
    \/ \E ticket_id \in 1..(MaxTickets + 1), update_data \in StatusUpdates, now \in UpdateTimes :
           ServiceUpdateTicket(ticket_id, update_data, TRUE, now)
    \/ ServiceIndexCall(TRUE)
    \/ ServiceReturn

LifecycleSpec == Init /\ [][LifecycleNext]_vars

(* ============== update_ticket and delete_ticket in one loop ============== *)
\* a call of the service in flight; overlaps tells whether the other call
\* was waiting at its index call for the same id when this one began
ServiceTask(pc, id, ticket, result, other) ==
    [pc |-> pc, id |-> id, ticket |-> ticket, result |-> result,
     overlaps |-> other.pc = "index" /\ other.id = id]

\* create_ticket, persistence call and index call
OverlapCreateTicket(ticket_data) ==
    /\ running = "none"
    /\ NextId(repo) <= MaxTickets
    /\ LET db_ticket == NewRow(NextId(repo), ticket_data) IN
       /\ repo' = Put(repo, db_ticket)
       /\ tickets_store' = AddResult(AfterInitialize, orm_to_pydantic(db_ticket))
    /\ initialized' = TRUE
    /\ UNCHANGED <<op, ret, removed, written, call, faults>>
    /\ UNCHANGED tvars

\* update_ticket up to `await vector_store.update_ticket(ticket)`
UpdatePersist(ticket_id, update_data, now) ==
    /\ tasks["update"].pc = "idle"
    /\ CanRun("update")
    /\ LET other == tasks["delete"] IN
       IF ticket_id \notin DOMAIN repo
       THEN /\ tasks' = [tasks EXCEPT !["update"] =
                             ServiceTask("returned", ticket_id, NoneVal, Returns(NoneVal), other)]
            /\ running' = Holder("update", "returned")
            /\ UNCHANGED repo
       ELSE LET db_ticket == UpdatedRow(repo[ticket_id], update_data, now)
                pc == AfterCommit(TRUE, db_ticket)
            IN /\ repo' = Put(repo, db_ticket)
               /\ tasks' = [tasks EXCEPT !["update"] =
                                ServiceTask(IF pc = "index" THEN "index" ELSE "returned", ticket_id,
                                            IF pc = "index" THEN orm_to_pydantic(db_ticket)
                                            ELSE NoneVal,
                                            NoResult, other)]
               /\ running' = Holder("update", IF pc = "index" THEN "index" ELSE "returned")
    /\ tickets_store' = AfterInitialize
    /\ initialized' = TRUE
    /\ UNCHANGED <<op, ret, removed, written, call, faults>>

\* update_ticket: the index call with the ticket read before the await, and
\* the return
UpdateIndex ==
    LET u == tasks["update"] IN
    /\ u.pc = "index"
    /\ CanRun("update")
    /\ tickets_store' = UpdateResult(AfterInitialize, u.ticket)
    /\ tasks' = [tasks EXCEPT !["update"].pc = "returned",
                              !["update"].result = ServiceResult(AddReturn(u.ticket), u.ticket)]
    /\ running' = Holder("update", "returned")
    /\ initialized' = TRUE
    /\ UNCHANGED <<op, ret, removed, written>>
    /\ UNCHANGED svars

\* delete_ticket up to `await vector_store.remove_ticket(ticket_id)`
DeletePersist(ticket_id) ==
    /\ tasks["delete"].pc = "idle"
    /\ CanRun("delete")
    /\ LET other == tasks["update"] IN
       IF ticket_id \notin DOMAIN repo
       THEN /\ tasks' = [tasks EXCEPT !["delete"] =
                             ServiceTask("returned", ticket_id, NoneVal, Returns(FALSE), other)]
            /\ running' = Holder("delete", "returned")
            /\ UNCHANGED repo
       ELSE /\ repo' = Delete(repo, ticket_id)
            /\ tasks' = [tasks EXCEPT !["delete"] =
                             ServiceTask("index", ticket_id, NoneVal, NoResult, other)]
            /\ running' = Holder("delete", "index")
    /\ tickets_store' = AfterInitialize
    /\ initialized' = TRUE
    /\ UNCHANGED <<op, ret, removed, written, call, faults>>

\* delete_ticket: the index call and the return
DeleteIndex ==
    LET d == tasks["delete"] IN
    /\ d.pc = "index"
    /\ CanRun("delete")
    /\ tickets_store' = RemoveResult(AfterInitialize, d.id)
    /\ tasks' = [tasks EXCEPT !["delete"].pc = "returned",
                              !["delete"].result = ServiceResult(TRUE, TRUE)]
    /\ running' = Holder("delete", "returned")
    /\ initialized' = TRUE
    /\ UNCHANGED <<op, ret, removed, written>>
    /\ UNCHANGED svars

\* the caller has taken the result; the next request may come
Forget(t) ==
    /\ tasks[t].pc = "returned"
    /\ tasks' = [tasks EXCEPT ![t] = [pc |-> "idle"]]
    /\ UNCHANGED <<tickets_store, initialized, op, ret, removed, written, running>>
    /\ UNCHANGED svars

OverlapNext ==
    \/ \E ticket_data \in TicketCreates : OverlapCreateTicket(ticket_data)
    \/ \E ticket_id \in 1..MaxTickets, update_data \in StatusUpdates :
           UpdatePersist(ticket_id, update_data, T2)
    \/ UpdateIndex
    \/ \E ticket_id \in 1..MaxTickets : DeletePersist(ticket_id)
    \/ DeleteIndex
    \/ \E t \in {"update", "delete"} : Forget(t)

OverlapSpec == Init /\ [][OverlapNext]_vars

(* ================ further properties of the ticket service ================ *)
\* a finished update_ticket or delete_ticket whose id had no row
IsAbsentCall ==
    /\ call.pc = "done"
    /\ call.name \in {"update", "delete"}
    /\ call.id \notin DOMAIN call.repo_before

\* C30: update_ticket and delete_ticket of an id that has no row return
\* None and False, leave the repository as it was and do not call the index:
\* the index is as before the call, and a document it holds for the id stays.
C30_AbsentIdChangesNothing ==
    IsAbsentCall =>
        /\ call.result.tag = "return"
        /\ call.name = "update" => call.result.value = NoneVal
        /\ call.name = "delete" => call.result.value = FALSE
        /\ ~call.committed
        /\ ~call.invoked
        /\ repo = call.repo_before
        /\ tickets_store = call.store_before

\* C30 happens: delete_ticket of an id that has no row returns False while
\* the index still holds a document for that id.
C30_Witness ==
    /\ IsAbsentCall
    /\ call.name = "delete"
    /\ call.result = Returns(FALSE)
    /\ call.id \in Keys(tickets_store)

\* an update_ticket that committed its row
IsCommittedUpdate == call.pc # "idle" /\ call.name = "update" /\ call.committed

\* C29: resolved_at is unset in the row create_ticket inserts; an update
\* whose request status is resolved or closed sets it when it is unset; an
\* update of a row that has it leaves it as it is, whatever the request: a
\* reopening does not clear it and a later resolving does not stamp it again.
C29_ResolvedAtSetOnce ==
    /\ (call.pc # "idle" /\ call.name = "create" /\ call.committed) =>
           repo[call.id].resolved_at = NoneVal
    /\ IsCommittedUpdate =>
           LET old == call.repo_before[call.id]
               new == repo[call.id]
               status == IF "status" \in DOMAIN call.update_data
                         THEN call.update_data.status ELSE NoneVal
           IN /\ old.resolved_at # NoneVal => new.resolved_at = old.resolved_at
              /\ old.resolved_at = NoneVal =>
                     new.resolved_at = IF status \in {RESOLVED, CLOSED}
                                       THEN call.now ELSE NoneVal

\* C29 happens: a ticket resolved at one time and reopened is resolved
\* again at another time, and keeps the first resolved_at.
C29_Witness ==
    /\ IsCommittedUpdate
    /\ call.update_data = [status |-> RESOLVED]
    /\ call.repo_before[call.id].status = OPEN
    /\ call.repo_before[call.id].resolved_at # NoneVal
    /\ call.now # call.repo_before[call.id].resolved_at
    /\ repo[call.id].status = RESOLVED
    /\ repo[call.id].resolved_at = call.repo_before[call.id].resolved_at

(* ================= properties of the index under the loop ================= *)
\* C23: a query that runs while writes are scheduled sees one snapshot of
\* the index: during the scan the mapping is the one the scan began on, the
\* documents scanned so far are its first ones, each the whole document of
\* the last finished write of its id; the finished query has scanned
\* exactly that mapping, did not fail, and returns the answer of
\* search_tickets for it.
C23_ScanSeesOneSnapshot ==
    LET r == tasks["reader"] IN
    /\ r.pc = "scan" =>
           /\ tickets_store = r.snapshot
           /\ r.seen = SubSeq(r.snapshot, 1, r.cursor - 1)
           /\ tasks["writer"].pc \in {"idle", "ready", "initialized"}
    /\ r.pc \in {"scan", "done"} =>
           \A i \in 1..Len(r.seen) : r.seen[i] \in { DocumentOf[t] : t \in written }
    /\ r.pc = "done" =>
           /\ ~r.raised
           /\ r.seen = r.snapshot
           /\ tickets_store = r.snapshot
           /\ r.results = search_tickets(r.snapshot, r.query, r.limit, r.filters)

\* C23 happens: the scan is between the two documents of the index while a
\* write of one of them is waiting for the event loop.
C23_Witness ==
    LET r == tasks["reader"]
        w == tasks["writer"]
    IN /\ r.pc = "scan"
       /\ r.cursor = 2
       /\ Len(tickets_store) = 2
       /\ w.pc = "initialized"
       /\ w.name = "add"
       /\ AddReturn(w.ticket)
       /\ w.ticket.id \in Keys(tickets_store)
       /\ DictGet(tickets_store, w.ticket.id) # DocumentOf[w.ticket]

\* update_ticket(id) and delete_ticket(id) overlapped and both have returned
BothReturned ==
    LET u == tasks["update"]
        d == tasks["delete"]
    IN /\ u.pc = "returned"
       /\ d.pc = "returned"
       /\ u.id = d.id
       /\ u.overlaps \/ d.overlaps

====
